---- MODULE Spec2Model ----
(***************************************************************************)
(* Model of the Linear MCP server: the tool dispatcher                     *)
(* (EnhancedLinearServer.executeTool), the pipeline engine                 *)
(* (PipelineProcessor.executePipeline), the CallToolRequestSchema handler  *)
(* with its error normalisation, and the MetricsCollector.                 *)
(*                                                                         *)
(* JavaScript runs each handler synchronously up to an await; the only     *)
(* await that really suspends is the call to the external Linear client.   *)
(* An action is therefore one synchronous segment: from the arrival of a   *)
(* request to the first client call (or to the reply), and from the        *)
(* settlement of a client call to the next client call (or to the reply).  *)
(***************************************************************************)
EXTENDS Integers, Sequences, FiniteSets, TLC

\* ------------------------------------------------------------------ bounds
NumCalls   == 2      \* call slots the transport may have open at once
MaxCalls   == 1      \* top-level calls received in one behaviour
MaxSteps   == 2      \* longest pipeline the caller submits
MaxOps     == 3      \* record/reset operations in the collector-only runs

Calls == 1..NumCalls

\* --------------------------------------------------------- program constants
maxMetricsCount == 1000

\* ------------------------------------------------------------------ values
\* JSON-ish parameter values: what the validation predicates look at.
\* kind "object"/"null"; a field is "absent", "string" or "number".
MkParams(k, team, title, first) ==
    [kind |-> k, teamId |-> team, title |-> title, first |-> first]

NullParams   == MkParams("null",   "absent", "absent", "absent")
EmptyParams  == MkParams("object", "absent", "absent", "absent")
TeamParams   == MkParams("object", "string", "absent", "number")
TeamOnly     == MkParams("object", "string", "absent", "absent")
CreateParams == MkParams("object", "string", "string", "absent")
BadTeam      == MkParams("object", "number", "string", "absent")

ParamValues == {NullParams, EmptyParams, TeamParams, CreateParams, BadTeam}

\* Results of the external client (and null, the initial prevResult).
MkResult(t, n) == [type |-> t, nodes |-> n]
Null        == MkResult("null", 0)
EmptyList   == MkResult("list", 0)      \* {nodes: []}
OneIssue    == MkResult("list", 1)      \* {nodes: [issue]}
IssueCreated == MkResult("issue", 0)    \* createIssue payload, no nodes field

\* A thrown JavaScript value.  isError: instanceof Error; hasCode: 'code' in it.
MkError(isErr, name, msg, hasCode, code) ==
    [isError |-> isErr, name |-> name, message |-> msg,
     hasCode |-> hasCode, code |-> code,
     hasRetryable |-> FALSE, retryable |-> FALSE]

NoError == MkError(FALSE, "", "", FALSE, "")

\* Failures of the external Linear client: an Error carrying a code, an Error
\* without one, and a rejected plain object (not an Error) that has a code.
RateLimited  == MkError(TRUE,  "Error", "rate limit exceeded", TRUE, "RATE_LIMIT")
AuthFailed   == MkError(TRUE,  "AuthenticationLinearError", "authentication failed",
                        TRUE, "AUTHENTICATION_ERROR")
NetworkDown  == MkError(TRUE,  "Error", "fetch failed", TRUE, "NETWORK_ERROR")
Uncoded      == MkError(TRUE,  "LinearError", "entity not found", FALSE, "")
ThrownObject == MkError(FALSE, "", "[object Object]", TRUE, "NETWORK_ERROR")

ClientErrors == {RateLimited, AuthFailed, NetworkDown, Uncoded, ThrownObject}

\* What the client may return for a tool it was asked to run.
ClientResults(name) ==
    IF name = "listIssues" THEN {EmptyList, OneIssue} ELSE {IssueCreated}

\* A TypeError raised by a caller-supplied condition/transform.
TypeErrorOf(msg) == MkError(TRUE, "TypeError", msg, FALSE, "")

\* ------------------------------------------------------ enhanced-types.ts
isValidListIssuesArgs(args) ==
    /\ args.kind = "object"
    /\ args.teamId \in {"absent", "string"}
    /\ args.first \in {"absent", "number"}

isValidIssueCreateArgs(args) ==
    /\ args.kind = "object"
    /\ args.title = "string"
    /\ args.teamId = "string"

\* PipelineSchema.safeParse(input).success
StepSchemaOK(step) ==
    /\ step.toolNameType = "string"
    /\ step.condition # "notFunction"
    /\ step.transform # "notFunction"

\* Mutation of PipelineSchemaOK: the context is not validated.
PipelineSchemaIgnoresContext(input) ==
    /\ input.kind = "object"
    /\ input.hasSteps
    /\ \A i \in 1..Len(input.steps) : StepSchemaOK(input.steps[i])

PipelineSchemaOK(input) ==
    /\ input.kind = "object"
    /\ input.hasSteps
    /\ \A i \in 1..Len(input.steps) : StepSchemaOK(input.steps[i])
    /\ input.context \in {"absent", "valid"}

\* ------------------------------------------- caller-supplied step functions
\* condition kinds (besides "absent" and "notFunction"):
\*   "nodesNonEmpty"   r => r.nodes.length > 0
\*   "resultsNonEmpty" results => results && results.length > 0
\*   "always"          () => true
\* The value is "true", "false" (any falsy value) or "throws".
CondEval(kind, prev) ==
    CASE kind = "nodesNonEmpty" ->
            IF prev.type # "list" THEN "throws"
            ELSE IF prev.nodes > 0 THEN "true" ELSE "false"
      [] kind = "resultsNonEmpty" -> "false"   \* null, or undefined > 0
      [] OTHER -> "true"

CondError(kind, prev) ==
    IF prev.type = "null"
    THEN TypeErrorOf("Cannot read properties of null (reading 'nodes')")
    ELSE TypeErrorOf("Cannot read properties of undefined (reading 'length')")

\* transform kinds (besides "absent" and "notFunction"):
\*   "followUp"  r => ({title: "follow-up", teamId: "T1"})
\*   "firstNode" r => ({title: r.nodes[0].title, teamId: "T1"})
\*   "teamOnly"  r => ({teamId: "T1"})
TransformThrows(kind, prev) ==
    kind = "firstNode" /\ (prev.type # "list" \/ prev.nodes = 0)

TransformError(kind, prev) ==
    IF prev.type = "null"
    THEN TypeErrorOf("Cannot read properties of null (reading 'nodes')")
    ELSE IF prev.type # "list"
    THEN TypeErrorOf("Cannot read properties of undefined (reading '0')")
    ELSE TypeErrorOf("Cannot read properties of undefined (reading 'title')")

TransformEval(kind, prev) ==
    IF kind = "teamOnly" THEN TeamOnly ELSE CreateParams

\* ------------------------------------------------------------- metrics.ts
\* Mutation of LastN: slice(0, n) instead of slice(-n), the newest are dropped.
FirstN(log, n) ==
    IF Len(log) > n THEN SubSeq(log, 1, n) ELSE log

\* record(metric): stamp the time, push, keep the last maxMetricsCount.
LastN(log, n) ==
    IF Len(log) > n THEN SubSeq(log, Len(log) - n + 1, Len(log)) ELSE log

\* Mutation of MetricsRecord: unshift instead of push, the newest entry first.
MetricsRecordUnshift(log, metric, time) ==
    FirstN(<<[metric EXCEPT !.timestamp = time]>> \o log, maxMetricsCount)

\* Mutation of MetricsRecord: only the success path records.
MetricsRecordSuccessOnly(log, metric, time) ==
    IF metric.success
    THEN LastN(Append(log, [metric EXCEPT !.timestamp = time]), maxMetricsCount)
    ELSE log

MetricsRecord(log, metric, time) ==
    LastN(Append(log, [metric EXCEPT !.timestamp = time]), maxMetricsCount)

MkMetric(name, duration, ok, errType) ==
    [toolName |-> name, requestDuration |-> duration, success |-> ok,
     errorType |-> errType, retryCount |-> 0, timestamp |-> 0]

\* ------------------------------------------------- executeTool (dispatcher)
\* The error executeTool throws before it reaches the client, or NoError.
\* Mutation of ToolRejection: the listIssues case forgets to validate.
ToolRejectionListUnchecked(name, params) ==
    CASE name = "listIssues" -> NoError
      [] name = "createIssue" ->
            IF isValidIssueCreateArgs(params) THEN NoError
            ELSE MkError(TRUE, "Error", "Invalid issue creation arguments", FALSE, "")
      [] OTHER -> MkError(TRUE, "Error", "Unknown tool: " \o name, FALSE, "")

ToolRejection(name, params) ==
    CASE name = "listIssues" ->
            IF isValidListIssuesArgs(params) THEN NoError
            ELSE MkError(TRUE, "Error", "Invalid list issues arguments", FALSE, "")
      [] name = "createIssue" ->
            IF isValidIssueCreateArgs(params) THEN NoError
            ELSE MkError(TRUE, "Error", "Invalid issue creation arguments", FALSE, "")
      [] OTHER -> MkError(TRUE, "Error", "Unknown tool: " \o name, FALSE, "")

\* Mutation of FailureMetric: the catch block reports the call as a success.
FailureMetricAsSuccess(name, start, time, error) ==
    MkMetric(name, time - start, TRUE, "absent")

SuccessMetric(name, start, time) == MkMetric(name, time - start, TRUE, "absent")

FailureMetric(name, start, time, error) ==
    MkMetric(name, time - start, FALSE,
             IF error.isError THEN error.name ELSE "UnknownError")

\* ------------------------------------------- executePipeline's catch block
\* Mutation of WrapStepError: retryable is derived from the code, as the
\* handler does, instead of being set to false.
WrapStepErrorRetryableByCode(error) ==
    [isError |-> TRUE, name |-> "Error",
     message |-> error.message,
     hasCode |-> TRUE,
     code |-> IF error.isError /\ error.hasCode THEN error.code
              ELSE "PIPELINE_STEP_ERROR",
     hasRetryable |-> TRUE,
     retryable |-> error.isError /\ error.hasCode
                   /\ error.code \in {"RATE_LIMIT", "NETWORK_ERROR"}]

WrapStepError(error) ==
    [isError |-> TRUE, name |-> "Error",
     message |-> error.message,      \* error.message, or String(error)
     hasCode |-> TRUE,
     code |-> IF error.isError /\ error.hasCode THEN error.code
              ELSE "PIPELINE_STEP_ERROR",
     hasRetryable |-> TRUE, retryable |-> FALSE]

InvalidPipelineError ==
    MkError(TRUE, "Error", "Invalid pipeline configuration", FALSE, "")

\* ---------------------------------------- CallToolRequestSchema handler
getSuggestionsForError(code) ==
    CASE code = "RATE_LIMIT" -> <<"Wait and retry later", "Reduce request frequency">>
      [] code = "AUTHENTICATION_ERROR" -> <<"Check API key", "Verify Linear authentication">>
      [] code = "NETWORK_ERROR" -> <<"Check network connection", "Verify Linear API status">>
      [] OTHER -> <<"Check input parameters", "Consult Linear API documentation">>

\* Mutation of ErrorCode: the instanceof Error test is lost.
ErrorCodeOfAnyValue(error) ==
    IF error.hasCode THEN error.code ELSE "TOOL_ERROR"

ErrorCode(error) ==
    IF error.isError /\ error.hasCode THEN error.code ELSE "TOOL_ERROR"

\* Mutation of Retryable: NETWORK_ERROR is forgotten.
RetryableRateLimitOnly(code) == code = "RATE_LIMIT"

Retryable(code) == code = "RATE_LIMIT" \/ code = "NETWORK_ERROR"

NoResponse == [kind |-> "none"]

SuccessResponse(shape, items) ==
    [kind |-> "result", isError |-> FALSE, shape |-> shape, items |-> items]

\* Mutation of ErrorResponse: the suggestions are looked up under the code the
\* thrown value carries, not under the code the response reports.
ErrorResponseSuggestByCause(error) ==
    [kind |-> "error", isError |-> TRUE,
     code |-> ErrorCode(error),
     message |-> error.message,
     details |-> error,
     retryable |-> Retryable(ErrorCode(error)),
     suggestions |-> getSuggestionsForError(IF error.hasCode THEN error.code
                                            ELSE "TOOL_ERROR")]

ErrorResponse(error) ==
    [kind |-> "error", isError |-> TRUE,
     code |-> ErrorCode(error),
     message |-> error.message,
     details |-> error,
     retryable |-> Retryable(ErrorCode(error)),
     suggestions |-> getSuggestionsForError(ErrorCode(error))]

\* ----------------------------------------------------------------- inputs
MkStep(name, params, cond, transform) ==
    [toolNameType |-> "string", toolName |-> name, params |-> params,
     condition |-> cond, transform |-> transform]

ListStep      == MkStep("listIssues",  TeamParams,  "absent", "absent")
FollowUpStep  == MkStep("createIssue", EmptyParams, "nodesNonEmpty", "followUp")
HelperStep    == MkStep("createIssue", EmptyParams, "resultsNonEmpty", "firstNode")
FirstNodeStep == MkStep("createIssue", EmptyParams, "always", "firstNode")
BadCreateStep == MkStep("createIssue", EmptyParams, "absent", "absent")
UnknownStep   == MkStep("deleteIssue", EmptyParams, "absent", "teamOnly")

StepValues == {ListStep, FollowUpStep, HelperStep, FirstNodeStep,
               BadCreateStep, UnknownStep}

MkPipeline(kind, hasSteps, steps, context) ==
    [kind |-> kind, hasSteps |-> hasSteps, steps |-> steps, context |-> context]

RECURSIVE SeqsUpTo(_, _)
SeqsUpTo(S, n) ==
    IF n = 0 THEN {<<>>}
    ELSE LET shorter == SeqsUpTo(S, n - 1)
         IN shorter \cup {Append(q, x) : q \in shorter, x \in S}

ValidPipelines ==
    {MkPipeline("object", TRUE, steps, ctx) :
        steps \in SeqsUpTo(StepValues, MaxSteps), ctx \in {"absent"}}
    \cup {MkPipeline("object", TRUE, <<ListStep>>, "valid")}

InvalidPipelines ==
    { MkPipeline("null", FALSE, <<>>, "absent"),                \* arguments missing
      MkPipeline("object", FALSE, <<>>, "absent"),              \* no steps field
      MkPipeline("object", TRUE, <<ListStep>>, "invalid"),      \* malformed context
      MkPipeline("object", TRUE,
                 <<ListStep, [ListStep EXCEPT !.toolNameType = "number"]>>, "absent"),
      MkPipeline("object", TRUE,
                 <<[ListStep EXCEPT !.condition = "notFunction"]>>, "absent") }

PipelineInputs == ValidPipelines \cup InvalidPipelines

\* The cases of executeTool's switch, and the names callers are let to send.
RegisteredTools == {"listIssues", "createIssue"}
ToolNames == RegisteredTools \cup {"deleteIssue"}

\* ------------------------------------------------------------------ state
VARIABLES
    metrics,     \* MetricsCollector.metrics, the log
    now,         \* Date.now()
    pc,          \* per call slot: "idle", "awaitClient", "responded"
    request,     \* per slot: the request being served
    run,         \* per slot: executePipeline's results / prevResult / step index
    frame,       \* per slot: the suspended executeTool (name, params, startTime)
    response,    \* per slot: the handler's reply
    received,    \* number of top-level calls received so far
    callId,      \* per slot: the number of the call it serves
    events,      \* history, per slot: what happened to each step / invocation
    recorded,    \* history: every metric handed to record() since the last reset
    ops,         \* collector-only runs: operations performed
    snapshot     \* the array a caller got from getMetrics(), as the caller holds it

vars == <<metrics, now, pc, request, run, frame, response, received, callId,
          events, recorded, ops, snapshot>>

NoRequest == [name |-> "", isPipeline |-> FALSE, params |-> NullParams,
              pipeline |-> MkPipeline("null", FALSE, <<>>, "absent")]
NoRun     == [i |-> 0, results |-> <<>>, prevResult |-> Null]
NoFrame   == [name |-> "", params |-> NullParams, startTime |-> 0]

Init ==
    /\ metrics = <<>>
    /\ now = 0
    /\ pc = [c \in Calls |-> "idle"]
    /\ request = [c \in Calls |-> NoRequest]
    /\ run = [c \in Calls |-> NoRun]
    /\ frame = [c \in Calls |-> NoFrame]
    /\ response = [c \in Calls |-> NoResponse]
    /\ received = 0
    /\ callId = [c \in Calls |-> 0]
    /\ events = [c \in Calls |-> <<>>]
    /\ recorded = <<>>
    /\ ops = 0
    /\ snapshot = <<>>

\* --------------------------------------------------------------- history
\* One entry per step the loop looked at (step 0: a direct tool call): it was
\* skipped ("skip"), its condition/transform threw ("throw"), or executeTool
\* was invoked ("dispatch") and is "pending", "ok", "rejected" (before the
\* client was reached) or "failed" (by the client).
MkEvent(step, what, prev, name, params, status, error) ==
    [step |-> step, what |-> what, prev |-> prev, name |-> name,
     params |-> params, status |-> status, result |-> Null, error |-> error]

Recorded(id, step, metric, time) ==
    [id |-> id, step |-> step, metric |-> [metric EXCEPT !.timestamp = time]]

\* ------------------------------------------- executePipeline, the step loop
\* pipeline.ts:26  step.condition && !step.condition(prevResult)
\* Mutation of ConditionThrows: a condition that throws counts as one that
\* holds.
ConditionThrowsNever(step, prev) == FALSE

ConditionThrows(step, prev) ==
    step.condition # "absent" /\ CondEval(step.condition, prev) = "throws"

\* Mutation of SkipStep: the `continue` is lost, a false condition skips nothing.
SkipStepNever(step, prev) == FALSE

SkipStep(step, prev) ==
    step.condition # "absent" /\ CondEval(step.condition, prev) = "false"

\* Mutation of EffectiveParams: the transform is never applied.
EffectiveParamsOwn(step, prev) == step.params

\* pipeline.ts:30  step.transform ? step.transform(prevResult) : step.params
EffectiveParams(step, prev) ==
    IF step.transform # "absent" THEN TransformEval(step.transform, prev)
    ELSE step.params

\* Mutation of PushResult: the result replaces the accumulator.
PushResultReplace(results, result) == <<result>>

\* Mutation of PushResult: unshift instead of push, the newest result first.
PushResultPrepend(results, result) == <<result>> \o results

\* pipeline.ts:35  results.push(result)
PushResult(results, result) == Append(results, result)

\* The loop from step i on, up to the point where it suspends on the client
\* ("await"), leaves the loop ("done"), or leaves it through the catch block:
\* a condition/transform threw ("thrown") or executeTool refused the call
\* before reaching the client ("rejected").
RECURSIVE RunSteps(_, _, _)
RunSteps(steps, i, prev) ==
    IF i > Len(steps)
    THEN [kind |-> "done", at |-> i, name |-> "", params |-> NullParams,
          error |-> NoError, events |-> <<>>]
    ELSE LET step == steps[i] IN
      IF ConditionThrows(step, prev)
      THEN [kind |-> "thrown", at |-> i, name |-> step.toolName, params |-> NullParams,
            error |-> CondError(step.condition, prev),
            events |-> <<MkEvent(i, "throw", prev, step.toolName, NullParams, "none",
                               CondError(step.condition, prev))>>]
      ELSE IF SkipStep(step, prev)
      THEN LET rest == RunSteps(steps, i + 1, prev)
           IN [rest EXCEPT !.events =
                 <<MkEvent(i, "skip", prev, step.toolName, NullParams, "none",
                           NoError)>> \o @]
      ELSE IF step.transform # "absent" /\ TransformThrows(step.transform, prev)
      THEN [kind |-> "thrown", at |-> i, name |-> step.toolName, params |-> NullParams,
            error |-> TransformError(step.transform, prev),
            events |-> <<MkEvent(i, "throw", prev, step.toolName, NullParams, "none",
                               TransformError(step.transform, prev))>>]
      ELSE LET params == EffectiveParams(step, prev)
               rej == ToolRejection(step.toolName, params)
           IN IF rej # NoError
              THEN [kind |-> "rejected", at |-> i, name |-> step.toolName,
                    params |-> params, error |-> rej,
                    events |-> <<MkEvent(i, "dispatch", prev, step.toolName,
                                         params, "rejected", rej)>>]
              ELSE [kind |-> "await", at |-> i, name |-> step.toolName,
                    params |-> params, error |-> NoError,
                    events |-> <<MkEvent(i, "dispatch", prev, step.toolName,
                                         params, "pending", NoError)>>]

\* The pipeline of slot c runs on from step `from` at time t, with the log
\* `log` and history `hist` as the current segment has left them.
PipelineContinue(c, id, steps, from, results, prev, log, hist, evs, t) ==
    LET out == RunSteps(steps, from, prev) IN
    /\ events' = [events EXCEPT ![c] = evs \o out.events]
    /\ run' = [run EXCEPT ![c] = [i |-> out.at, results |-> results, prevResult |-> prev]]
    /\ CASE out.kind = "await" ->
              /\ pc' = [pc EXCEPT ![c] = "awaitClient"]
              /\ frame' = [frame EXCEPT ![c] =
                            [name |-> out.name, params |-> out.params, startTime |-> t]]
              /\ response' = [response EXCEPT ![c] = NoResponse]
              /\ metrics' = log
              /\ recorded' = hist
         [] out.kind = "done" ->
              /\ pc' = [pc EXCEPT ![c] = "responded"]
              /\ frame' = [frame EXCEPT ![c] = NoFrame]
              /\ response' = [response EXCEPT ![c] = SuccessResponse("array", results)]
              /\ metrics' = log
              /\ recorded' = hist
         [] out.kind = "thrown" ->
              /\ pc' = [pc EXCEPT ![c] = "responded"]
              /\ frame' = [frame EXCEPT ![c] = NoFrame]
              /\ response' = [response EXCEPT ![c] = ErrorResponse(WrapStepError(out.error))]
              /\ metrics' = log
              /\ recorded' = hist
         [] out.kind = "rejected" ->
              /\ pc' = [pc EXCEPT ![c] = "responded"]
              /\ frame' = [frame EXCEPT ![c] = NoFrame]
              /\ response' = [response EXCEPT ![c] = ErrorResponse(WrapStepError(out.error))]
              /\ metrics' = MetricsRecord(log, FailureMetric(out.name, t, t, out.error), t)
              /\ recorded' = Append(hist, Recorded(id, out.at,
                                      FailureMetric(out.name, t, t, out.error), t))

\* ---------------------------------------------------------------- actions
FirstIdle(c) == pc[c] = "idle" /\ \A d \in Calls : d < c => pc[d] # "idle"

NoneInFlight == \A d \in Calls : pc[d] = "idle"

Accept(c, req) ==
    /\ FirstIdle(c)
    /\ received' = received + 1
    /\ callId' = [callId EXCEPT ![c] = received + 1]
    /\ request' = [request EXCEPT ![c] = req]

SetLast(evs, status, result, error) ==
    [evs EXCEPT ![Len(evs)] =
        [@ EXCEPT !.status = status, !.result = result, !.error = error]]

\* The handler receives a call of a tool other than executePipeline and runs
\* executeTool up to the client call; a refused call is answered at once.
CallTool(c, name, params) ==
    /\ Accept(c, [NoRequest EXCEPT !.name = name, !.params = params])
    /\ LET rej == ToolRejection(name, params)
           m   == FailureMetric(name, now, now, rej)
       IN IF rej # NoError
          THEN /\ metrics' = MetricsRecord(metrics, m, now)
               /\ recorded' = Append(recorded, Recorded(received + 1, 0, m, now))
               /\ events' = [events EXCEPT ![c] =
                    <<MkEvent(0, "dispatch", Null, name, params, "rejected", rej)>>]
               /\ response' = [response EXCEPT ![c] = ErrorResponse(rej)]
               /\ pc' = [pc EXCEPT ![c] = "responded"]
               /\ frame' = frame
          ELSE /\ events' = [events EXCEPT ![c] =
                    <<MkEvent(0, "dispatch", Null, name, params, "pending", NoError)>>]
               /\ frame' = [frame EXCEPT ![c] =
                    [name |-> name, params |-> params, startTime |-> now]]
               /\ pc' = [pc EXCEPT ![c] = "awaitClient"]
               /\ UNCHANGED <<metrics, recorded, response>>
    /\ UNCHANGED <<now, run, ops, snapshot>>

\* The handler receives an executePipeline call: validation, then the step
\* loop up to the first client call.
CallPipeline(c, input) ==
    /\ Accept(c, [NoRequest EXCEPT !.name = "executePipeline",
                                   !.isPipeline = TRUE, !.pipeline = input])
    /\ IF ~PipelineSchemaOK(input)
       THEN /\ response' = [response EXCEPT ![c] = ErrorResponse(InvalidPipelineError)]
            /\ pc' = [pc EXCEPT ![c] = "responded"]
            /\ UNCHANGED <<metrics, recorded, events, run, frame>>
       ELSE PipelineContinue(c, received + 1, input.steps, 1, <<>>, Null,
                             metrics, recorded, <<>>, now)
    /\ UNCHANGED <<now, ops, snapshot>>

\* The client call of slot c resolves: executeTool records success and returns;
\* a pipeline pushes the result and runs on to its next client call.
ClientResolve(c, result) ==
    /\ pc[c] = "awaitClient"
    /\ result \in ClientResults(frame[c].name)
    /\ now' = now + 1
    /\ LET m    == SuccessMetric(frame[c].name, frame[c].startTime, now')
           log1 == MetricsRecord(metrics, m, now')
           his1 == Append(recorded, Recorded(callId[c], run[c].i, m, now'))
           evs1 == SetLast(events[c], "ok", result, NoError)
       IN IF request[c].isPipeline
          THEN PipelineContinue(c, callId[c], request[c].pipeline.steps, run[c].i + 1,
                                PushResult(run[c].results, result), result,
                                log1, his1, evs1, now')
          ELSE /\ metrics' = log1
               /\ recorded' = his1
               /\ events' = [events EXCEPT ![c] = evs1]
               /\ response' = [response EXCEPT ![c] = SuccessResponse("value", <<result>>)]
               /\ pc' = [pc EXCEPT ![c] = "responded"]
               /\ frame' = [frame EXCEPT ![c] = NoFrame]
               /\ run' = run
    /\ UNCHANGED <<request, received, callId, ops, snapshot>>

\* Mutation of ClientReject: the pipeline's catch block swallows the failure
\* and the loop goes on with the next step.
ClientRejectAndContinue(c, error) ==
    /\ pc[c] = "awaitClient"
    /\ now' = now + 1
    /\ LET m    == FailureMetric(frame[c].name, frame[c].startTime, now', error)
           log1 == MetricsRecord(metrics, m, now')
           his1 == Append(recorded, Recorded(callId[c], run[c].i, m, now'))
           evs1 == SetLast(events[c], "failed", Null, error)
       IN IF request[c].isPipeline
          THEN PipelineContinue(c, callId[c], request[c].pipeline.steps, run[c].i + 1,
                                run[c].results, run[c].prevResult,
                                log1, his1, evs1, now')
          ELSE /\ metrics' = log1
               /\ recorded' = his1
               /\ events' = [events EXCEPT ![c] = evs1]
               /\ response' = [response EXCEPT ![c] = ErrorResponse(error)]
               /\ pc' = [pc EXCEPT ![c] = "responded"]
               /\ frame' = [frame EXCEPT ![c] = NoFrame]
               /\ run' = run
    /\ UNCHANGED <<request, received, callId, ops, snapshot>>

\* The client call of slot c fails: executeTool records the failure and
\* rethrows; a pipeline wraps the error and gives up.
ClientReject(c, error) ==
    /\ pc[c] = "awaitClient"
    /\ now' = now + 1
    /\ LET m == FailureMetric(frame[c].name, frame[c].startTime, now', error)
       IN /\ metrics' = MetricsRecord(metrics, m, now')
          /\ recorded' = Append(recorded, Recorded(callId[c], run[c].i, m, now'))
    /\ events' = [events EXCEPT ![c] = SetLast(@, "failed", Null, error)]
    /\ response' = [response EXCEPT ![c] =
          ErrorResponse(IF request[c].isPipeline THEN WrapStepError(error) ELSE error)]
    /\ pc' = [pc EXCEPT ![c] = "responded"]
    /\ frame' = [frame EXCEPT ![c] = NoFrame]
    /\ UNCHANGED <<request, run, received, callId, ops, snapshot>>

\* The transport has sent the reply; the slot is free again.
Reply(c) ==
    /\ pc[c] = "responded"
    /\ pc' = [pc EXCEPT ![c] = "idle"]
    /\ request' = [request EXCEPT ![c] = NoRequest]
    /\ run' = [run EXCEPT ![c] = NoRun]
    /\ response' = [response EXCEPT ![c] = NoResponse]
    /\ events' = [events EXCEPT ![c] = <<>>]
    /\ callId' = [callId EXCEPT ![c] = 0]
    /\ UNCHANGED <<metrics, now, frame, received, recorded, ops, snapshot>>

\* One top-level call at a time: a call is taken up when the one before it
\* has been answered.
MayReceive == NoneInFlight /\ received < MaxCalls

Next ==
    \/ \E c \in Calls, name \in ToolNames, params \in ParamValues :
          MayReceive /\ CallTool(c, name, params)
    \/ \E c \in Calls, input \in PipelineInputs :
          MayReceive /\ CallPipeline(c, input)
    \/ \E c \in Calls, result \in {EmptyList, OneIssue, IssueCreated} :
          ClientResolve(c, result)
    \/ \E c \in Calls, error \in ClientErrors : ClientReject(c, error)
    \/ \E c \in Calls : Reply(c)

Spec == Init /\ [][Next]_vars

\* The client settles the call slot c waits on: the promise of
\* this.client.issues / this.client.createIssue is resolved or rejected.
ClientSettle(c) ==
    \/ \E result \in ClientResults(frame[c].name) : ClientResolve(c, result)
    \/ \E error \in ClientErrors : ClientReject(c, error)

\* Pipeline runs alone, one call at a time, over steps that return, are
\* skipped, are refused by the dispatcher, fail at the client or have a
\* condition or transform that throws; every call handed to the client is
\* settled in the end.
LiveSteps == {ListStep, FollowUpStep, FirstNodeStep, BadCreateStep}

LivePipelines ==
    {p \in ValidPipelines : \A k \in 1..Len(p.steps) : p.steps[k] \in LiveSteps}

NextLive ==
    \/ \E c \in Calls, input \in LivePipelines :
          MayReceive /\ CallPipeline(c, input)
    \/ \E c \in Calls, result \in {EmptyList, OneIssue, IssueCreated} :
          ClientResolve(c, result)
    \/ \E c \in Calls, error \in ClientErrors : ClientReject(c, error)
    \/ \E c \in Calls : Reply(c)

SpecLive ==
    Init /\ [][NextLive]_vars /\ \A c \in Calls : WF_vars(ClientSettle(c))

\* The transport interleaves independent calls: a call is taken up while
\* others wait for the client, as long as a slot is free.  The requests and
\* client failures are a few of those above.
InterleavedTools == {<<"listIssues", TeamParams>>, <<"createIssue", EmptyParams>>}

InterleavedPipelines ==
    { MkPipeline("object", TRUE, <<ListStep, FollowUpStep>>, "absent"),
      MkPipeline("object", TRUE, <<HelperStep, ListStep>>, "absent") }

InterleavedErrors == {RateLimited}

MayReceiveInterleaved == received < NumCalls

NextInterleaved ==
    \/ \E c \in Calls, t \in InterleavedTools :
          MayReceiveInterleaved /\ CallTool(c, t[1], t[2])
    \/ \E c \in Calls, input \in InterleavedPipelines :
          MayReceiveInterleaved /\ CallPipeline(c, input)
    \/ \E c \in Calls, result \in {EmptyList, OneIssue, IssueCreated} :
          ClientResolve(c, result)
    \/ \E c \in Calls, error \in InterleavedErrors : ClientReject(c, error)
    \/ \E c \in Calls : Reply(c)

SpecInterleaved == Init /\ [][NextInterleaved]_vars

\* ------------------------------------------- the MetricsCollector on its own
\* Runs of record() and reset() alone.  The log starts as some number of
\* earlier record() calls have left it: empty, one short of capacity, or full.
FillMetric(k) ==
    [toolName |-> IF k % 2 = 0 THEN "listIssues" ELSE "createIssue",
     requestDuration |-> k % 5,
     success |-> (k % 3 # 0),
     errorType |-> IF k % 3 # 0 THEN "absent" ELSE "Error",
     retryCount |-> 0,
     timestamp |-> k]

Fill(n) == [k \in 1..n |-> FillMetric(k)]

FillLengths == {0, maxMetricsCount - 1, maxMetricsCount}

MetricInputs ==
    { MkMetric("listIssues",  2, TRUE,  "absent"),
      MkMetric("listIssues",  4, FALSE, "Error"),
      MkMetric("createIssue", 1, TRUE,  "absent"),
      MkMetric("deleteIssue", 0, FALSE, "Error"),
      MkMetric("",            3, FALSE, "Error") }

\* The argument of a read: a tool name, or nothing (toolName?: string).
NamedTool(name) == [given |-> TRUE, name |-> name]
NoToolName      == [given |-> FALSE, name |-> ""]

\* `toolName ? ... : ...` : undefined and the empty string are both falsy.
Truthy(toolName) == toolName.given /\ toolName.name # ""

getMetricsForTool(log, name) == SelectSeq(log, LAMBDA m : m.toolName = name)

relevantMetrics(log, toolName) ==
    IF Truthy(toolName) THEN getMetricsForTool(log, toolName.name) ELSE log

\* A quotient num / den of naturals, kept as the pair; 0 is 0 / 1.
Quotient(num, den) == [num |-> num, den |-> den]

\* reduce((sum, m) => sum + m.requestDuration, 0) over log[lo..hi]; the sum
\* of integers is taken by halves to keep the evaluation shallow.
RECURSIVE SumDuration(_, _, _)
SumDuration(log, lo, hi) ==
    IF lo > hi THEN 0
    ELSE IF lo = hi THEN log[lo].requestDuration
    ELSE LET mid == (lo + hi) \div 2
         IN  SumDuration(log, lo, mid) + SumDuration(log, mid + 1, hi)

getErrorRate(log, toolName) ==
    LET relevant   == relevantMetrics(log, toolName)
        errorCount == Len(SelectSeq(relevant, LAMBDA m : ~m.success))
    IN  IF Len(relevant) = 0 THEN Quotient(0, 1)
        ELSE Quotient(errorCount, Len(relevant))

getAverageRequestDuration(log, toolName) ==
    LET relevant == relevantMetrics(log, toolName)
    IN  IF Len(relevant) = 0 THEN Quotient(0, 1)
        ELSE Quotient(SumDuration(relevant, 1, Len(relevant)), Len(relevant))

InitMetrics ==
    /\ metrics \in {Fill(n) : n \in FillLengths}
    /\ recorded = [k \in 1..Len(metrics) |-> [id |-> 0, step |-> 0, metric |-> metrics[k]]]
    /\ now = Len(metrics)
    /\ pc = [c \in Calls |-> "idle"]
    /\ request = [c \in Calls |-> NoRequest]
    /\ run = [c \in Calls |-> NoRun]
    /\ frame = [c \in Calls |-> NoFrame]
    /\ response = [c \in Calls |-> NoResponse]
    /\ received = 0
    /\ callId = [c \in Calls |-> 0]
    /\ events = [c \in Calls |-> <<>>]
    /\ ops = 0
    /\ snapshot = <<>>

\* An element of a held snapshot is a reference to a metric object: `value`
\* is the object's content and `alias` the position in the log that holds the
\* same object, 0 once the log holds it no longer (or never did).  When the
\* log drops its `dropped` oldest objects the others move down by as many.
Realias(held, dropped) ==
    [i \in 1..Len(held) |->
        [held[i] EXCEPT !.alias = IF @ > dropped THEN @ - dropped ELSE 0]]

record(metric) ==
    /\ ops < MaxOps
    /\ ops' = ops + 1
    /\ now' = now + 1
    /\ metrics' = MetricsRecord(metrics, metric, now')
    /\ recorded' = Append(recorded, Recorded(0, 0, metric, now'))
    /\ snapshot' = Realias(snapshot, Len(metrics) + 1 - Len(metrics'))
    /\ UNCHANGED <<pc, request, run, frame, response, received, callId, events>>

reset ==
    /\ ops < MaxOps
    /\ ops' = ops + 1
    /\ metrics' = <<>>
    /\ recorded' = <<>>
    /\ snapshot' = Realias(snapshot, Len(metrics))
    /\ UNCHANGED <<now, pc, request, run, frame, response, received, callId, events>>

NextMetrics ==
    \/ \E metric \in MetricInputs : record(metric)
    \/ reset

SpecMetrics == InitMetrics /\ [][NextMetrics]_vars

\* ------------------------------------ a caller holding getMetrics()'s array
\* getMetrics() returns [...this.metrics]: a new array whose elements are the
\* very objects the log holds.  The caller may then do to that array, and to
\* the objects it reaches through it, what JavaScript allows.
SnapshotFillLengths == {0, 2}

CallerMetric == MkMetric("createIssue", 1, TRUE, "absent")

InitSnapshot ==
    /\ metrics \in {Fill(n) : n \in SnapshotFillLengths}
    /\ recorded = [k \in 1..Len(metrics) |-> [id |-> 0, step |-> 0, metric |-> metrics[k]]]
    /\ now = Len(metrics)
    /\ pc = [c \in Calls |-> "idle"]
    /\ request = [c \in Calls |-> NoRequest]
    /\ run = [c \in Calls |-> NoRun]
    /\ frame = [c \in Calls |-> NoFrame]
    /\ response = [c \in Calls |-> NoResponse]
    /\ received = 0
    /\ callId = [c \in Calls |-> 0]
    /\ events = [c \in Calls |-> <<>>]
    /\ ops = 0
    /\ snapshot = <<>>

getMetrics ==
    /\ ops < MaxOps
    /\ ops' = ops + 1
    /\ snapshot' = [i \in 1..Len(metrics) |-> [value |-> metrics[i], alias |-> i]]
    /\ UNCHANGED <<metrics, now, pc, request, run, frame, response, received,
                   callId, events, recorded>>

\* snapshot.push(m)
snapshotPush ==
    /\ ops < MaxOps
    /\ ops' = ops + 1
    /\ snapshot' = Append(snapshot, [value |-> CallerMetric, alias |-> 0])
    /\ UNCHANGED <<metrics, now, pc, request, run, frame, response, received,
                   callId, events, recorded>>

\* snapshot.pop()
snapshotPop ==
    /\ ops < MaxOps
    /\ Len(snapshot) > 0
    /\ ops' = ops + 1
    /\ snapshot' = SubSeq(snapshot, 1, Len(snapshot) - 1)
    /\ UNCHANGED <<metrics, now, pc, request, run, frame, response, received,
                   callId, events, recorded>>

\* snapshot.reverse()
snapshotReverse ==
    /\ ops < MaxOps
    /\ Len(snapshot) > 1
    /\ ops' = ops + 1
    /\ snapshot' = [i \in 1..Len(snapshot) |-> snapshot[Len(snapshot) + 1 - i]]
    /\ UNCHANGED <<metrics, now, pc, request, run, frame, response, received,
                   callId, events, recorded>>

\* snapshot[i].success = !snapshot[i].success : a write to the object itself,
\* seen through every reference to it.
snapshotWrite(i) ==
    /\ ops < MaxOps
    /\ ops' = ops + 1
    /\ snapshot' = [snapshot EXCEPT ![i].value.success = ~@]
    /\ metrics' = IF snapshot[i].alias > 0
                  THEN [metrics EXCEPT ![snapshot[i].alias].success = ~@]
                  ELSE metrics
    /\ UNCHANGED <<now, pc, request, run, frame, response, received,
                   callId, events, recorded>>

CallerEdit ==
    \/ snapshotPush
    \/ snapshotPop
    \/ snapshotReverse
    \/ \E i \in 1..Len(snapshot) : snapshotWrite(i)

NextSnapshot ==
    \/ \E metric \in MetricInputs : record(metric)
    \/ reset
    \/ getMetrics
    \/ CallerEdit

SpecSnapshot == InitSnapshot /\ [][NextSnapshot]_vars

\* ================================================================= claims
Steps(c)      == request[c].pipeline.steps
IsRun(c)      == pc[c] # "idle" /\ request[c].isPipeline
                 /\ request[c].pipeline \in ValidPipelines
IsToolCall(c) == pc[c] # "idle" /\ ~request[c].isPipeline
EventIdx(c)   == 1..Len(events[c])
MetricsOf(id, step) ==
    {k \in 1..Len(recorded) : recorded[k].id = id /\ recorded[k].step = step}
Failed(e)     == e.what = "dispatch" /\ e.status \in {"rejected", "failed"}
LogOfHistory  == [k \in 1..Len(recorded) |-> recorded[k].metric]

\* C1: every executeTool invocation that has completed, by returning or by
\* failing in any of the three ways, has put exactly one metric into the log:
\* toolName is the invoked name, success tells whether it returned, retryCount
\* is 0; an invocation still waiting for the client has put none; and the log
\* is exactly the metrics so recorded.
C1_OneMetricPerInvocation ==
    /\ \A c \in Calls : \A k \in EventIdx(c) :
          LET e == events[c][k]
              ms == MetricsOf(callId[c], e.step)
          IN e.what = "dispatch" =>
               IF e.status = "pending" THEN ms = {}
               ELSE /\ Cardinality(ms) = 1
                    /\ \A j \in ms :
                         /\ recorded[j].metric.toolName = e.name
                         /\ recorded[j].metric.success = (e.status = "ok")
                         /\ recorded[j].metric.retryCount = 0
    /\ Len(recorded) <= maxMetricsCount => metrics = LogOfHistory

\* C1 witness: a run whose first invocation returned and whose second failed.
C1_Witness ==
    \E c \in Calls :
        /\ Len(events[c]) = 2
        /\ events[c][1].status = "ok"
        /\ events[c][2].status = "failed"
        /\ Len(metrics) = 2
        /\ metrics[1].success /\ ~metrics[2].success

\* C2: a step whose condition is present and false on the prevResult it is
\* given is skipped: it is not dispatched, no metric carries its index, nothing
\* is appended to results, and prevResult is passed on unchanged; every step
\* sees the result of the last dispatched step, or null when there is none.
OkBefore(c, k) == {j \in 1..(k - 1) : events[c][j].status = "ok"}
LastResult(c, k) ==
    IF OkBefore(c, k) = {} THEN Null
    ELSE events[c][CHOOSE j \in OkBefore(c, k) :
                      \A h \in OkBefore(c, k) : h <= j].result

C2_FalseConditionSkips ==
    \A c \in Calls : IsRun(c) =>
        /\ \A k \in EventIdx(c) :
             LET e == events[c][k]
                 step == Steps(c)[e.step]
             IN /\ e.prev = LastResult(c, k)
                /\ (step.condition # "absent"
                      /\ CondEval(step.condition, e.prev) = "false") =>
                     /\ e.what = "skip"
                     /\ MetricsOf(callId[c], e.step) = {}
                     /\ ~(pc[c] = "awaitClient" /\ run[c].i = e.step)
                     /\ k < Len(events[c]) => events[c][k + 1].prev = e.prev
                     /\ k = Len(events[c]) => run[c].prevResult = e.prev
        /\ Len(run[c].results) = Cardinality(OkBefore(c, Len(events[c]) + 1))
        /\ run[c].prevResult = LastResult(c, Len(events[c]) + 1)

\* C2 witness: listIssues returned {nodes: []}, the follow-up step was
\* skipped, and the run answered [{nodes: []}].
C2_Witness ==
    \E c \in Calls :
        /\ IsRun(c) /\ Steps(c) = <<ListStep, FollowUpStep>>
        /\ pc[c] = "responded"
        /\ events[c][2].what = "skip"
        /\ response[c].kind = "result" /\ response[c].items = <<EmptyList>>

\* C3: a finished run with no failed step answers with as many results as it
\* has steps less the skipped ones; a run with a failed step answers with an
\* error and no results.
SkippedOf(c) == {k \in EventIdx(c) : events[c][k].what = "skip"}
StepFailed(c) ==
    \E k \in EventIdx(c) : Failed(events[c][k]) \/ events[c][k].what = "throw"

C3_ResultCount ==
    \A c \in Calls : (IsRun(c) /\ pc[c] = "responded") =>
        IF StepFailed(c)
        THEN response[c].kind = "error"
        ELSE /\ response[c].kind = "result"
             /\ response[c].shape = "array"
             /\ Len(response[c].items) = Len(Steps(c)) - Cardinality(SkippedOf(c))

\* C3 witness: a two-step run, one step skipped, one result returned.
C3_Witness ==
    \E c \in Calls :
        /\ IsRun(c) /\ pc[c] = "responded" /\ Len(Steps(c)) = 2
        /\ Cardinality(SkippedOf(c)) = 1
        /\ response[c].kind = "result" /\ Len(response[c].items) = 1

\* The failed dispatch of a run (there is at most one, the last event).
FailedEvents(c) == {k \in EventIdx(c) : Failed(events[c][k])}
RunFailedAtDispatch(c) ==
    IsRun(c) /\ pc[c] = "responded" /\ FailedEvents(c) # {}
CodeCarried(error) == error.isError /\ error.hasCode

\* C4 as stated: whenever the dispatch of a step fails, the error raised by
\* executePipeline has code PIPELINE_STEP_ERROR, the original message and
\* retryable = false.
C4_AlwaysPipelineStepError ==
    \A c \in Calls : RunFailedAtDispatch(c) =>
        \A k \in FailedEvents(c) :
            /\ response[c].details.code = "PIPELINE_STEP_ERROR"
            /\ response[c].details.message = events[c][k].error.message
            /\ response[c].details.hasRetryable
            /\ ~response[c].details.retryable

\* C4 amended: whenever the dispatch of a step fails, the error raised by
\* executePipeline has the original message and retryable = false; its code is
\* the failure's own code when the failure is an Error carrying one, and
\* PIPELINE_STEP_ERROR otherwise.
C4_CodeKeptElseStepError ==
    \A c \in Calls : RunFailedAtDispatch(c) =>
        \A k \in FailedEvents(c) :
            /\ response[c].details.hasCode
            /\ CodeCarried(events[c][k].error) =>
                  response[c].details.code = events[c][k].error.code
            /\ ~CodeCarried(events[c][k].error) =>
                  response[c].details.code = "PIPELINE_STEP_ERROR"
            /\ response[c].details.message = events[c][k].error.message
            /\ response[c].details.hasRetryable
            /\ ~response[c].details.retryable

\* C4 witness: a step failed with RATE_LIMIT; the pipeline's error keeps that
\* code and is marked not retryable.
C4_Witness ==
    \E c \in Calls :
        /\ RunFailedAtDispatch(c)
        /\ events[c][Len(events[c])].error = RateLimited
        /\ response[c].details.code = "RATE_LIMIT"
        /\ ~response[c].details.retryable

\* C5: the response to an executePipeline call that failed because a step's
\* dispatch failed has retryable = false, whatever the underlying cause.
C5_PipelineFailureNotRetryable ==
    \A c \in Calls : RunFailedAtDispatch(c) =>
        /\ response[c].kind = "error"
        /\ ~response[c].retryable

\* C6: once the dispatch of a step has failed, that event is the last of its
\* run: no later step is looked at or dispatched, no step is dispatched twice,
\* nothing is waiting on the client, and the run has ended with an error.
C6_FailureEndsRun ==
    \A c \in Calls : IsRun(c) =>
        /\ \A k \in EventIdx(c) : Failed(events[c][k]) =>
              /\ k = Len(events[c])
              /\ pc[c] = "responded"
              /\ frame[c] = NoFrame
              /\ response[c].kind = "error"
              /\ Cardinality(MetricsOf(callId[c], events[c][k].step)) = 1
        /\ \A j, k \in EventIdx(c) : j < k => events[c][j].step < events[c][k].step

\* C6 witness: the first of two steps failed at the client and the run ended
\* there.
C6_Witness ==
    \E c \in Calls :
        /\ IsRun(c) /\ Len(Steps(c)) = 2
        /\ Len(events[c]) = 1 /\ events[c][1].status = "failed"
        /\ pc[c] = "responded" /\ Len(recorded) = 1

InvalidRun(c) ==
    /\ pc[c] = "responded"
    /\ request[c].isPipeline
    /\ request[c].pipeline \in InvalidPipelines

Untouched(c) ==
    /\ events[c] = <<>>
    /\ \A k \in 1..Len(recorded) : recorded[k].id # callId[c]
    /\ frame[c] = NoFrame

\* C7 as stated: an input that does not conform to the Pipeline schema fails
\* with code INVALID_PIPELINE, before any dispatch and any metric.
C7_InvalidPipelineCode ==
    \A c \in Calls : InvalidRun(c) =>
        /\ response[c].kind = "error"
        /\ response[c].code = "INVALID_PIPELINE"
        /\ Untouched(c)

\* C7 amended: an input that does not conform to the Pipeline schema fails
\* with an Error that carries no code and the message "Invalid pipeline
\* configuration", which the response reports under the code TOOL_ERROR; this
\* happens before any dispatch and any metric.
C7_InvalidPipelineRejectedUncoded ==
    \A c \in Calls : InvalidRun(c) =>
        /\ response[c].kind = "error"
        /\ ~response[c].details.hasCode
        /\ response[c].code = "TOOL_ERROR"
        /\ response[c].message = "Invalid pipeline configuration"
        /\ Untouched(c)

\* C7 witness: a pipeline with a well-formed step and a malformed context is
\* refused with TOOL_ERROR and the log is empty.
C7_Witness ==
    \E c \in Calls :
        /\ InvalidRun(c)
        /\ request[c].pipeline.context = "invalid"
        /\ Len(request[c].pipeline.steps) = 1
        /\ response[c].code = "TOOL_ERROR"
        /\ metrics = <<>>

FailedToolCall(c) ==
    IsToolCall(c) /\ pc[c] = "responded" /\ response[c].kind = "error"

ArgsRefused(name, params) ==
    \/ name = "listIssues" /\ ~isValidListIssuesArgs(params)
    \/ name = "createIssue" /\ ~isValidIssueCreateArgs(params)

\* C8 as stated: the code of a failed tool call is UNKNOWN_TOOL for an
\* unregistered name, INVALID_ARGUMENTS for refused params, and otherwise the
\* client failure's code, or TOOL_ERROR when that failure has none.
C8_ErrorCodeTaxonomy ==
    \A c \in Calls : FailedToolCall(c) =>
        LET e == events[c][1] IN
        response[c].code =
            IF e.name \notin RegisteredTools THEN "UNKNOWN_TOOL"
            ELSE IF ArgsRefused(e.name, e.params) THEN "INVALID_ARGUMENTS"
            ELSE IF e.error.hasCode THEN e.error.code
            ELSE "TOOL_ERROR"

\* C8 amended: the code of a failed tool call is TOOL_ERROR both for an
\* unregistered name and for refused params (the two are told apart by the
\* message only), and otherwise the client failure's code when that failure
\* is an Error carrying one, TOOL_ERROR when it is not.
C8_ErrorCodeFromClientElseToolError ==
    \A c \in Calls : FailedToolCall(c) =>
        LET e == events[c][1] IN
        /\ e.name \notin RegisteredTools =>
              /\ response[c].code = "TOOL_ERROR"
              /\ response[c].message = "Unknown tool: " \o e.name
        /\ ArgsRefused(e.name, e.params) =>
              /\ response[c].code = "TOOL_ERROR"
              /\ response[c].message \in {"Invalid list issues arguments",
                                          "Invalid issue creation arguments"}
        /\ (e.name \in RegisteredTools /\ ~ArgsRefused(e.name, e.params)) =>
              /\ e.status = "failed"
              /\ response[c].message = e.error.message
              /\ response[c].code =
                    IF CodeCarried(e.error) THEN e.error.code ELSE "TOOL_ERROR"

\* C8 witness: createIssue without a title is answered TOOL_ERROR and one
\* failed metric is in the log.
C8_Witness ==
    \E c \in Calls :
        /\ FailedToolCall(c)
        /\ request[c].name = "createIssue" /\ request[c].params = EmptyParams
        /\ response[c].code = "TOOL_ERROR"
        /\ Len(metrics) = 1 /\ ~metrics[1].success

\* C9: the response to a failed direct tool call is retryable exactly when
\* its code is RATE_LIMIT or NETWORK_ERROR.
C9_RetryableIffRateLimitOrNetwork ==
    \A c \in Calls : FailedToolCall(c) =>
        (response[c].retryable <=>
            response[c].code \in {"RATE_LIMIT", "NETWORK_ERROR"})

\* C9 witness: a direct call failed at the client with NETWORK_ERROR and is
\* answered retryable.
C9_Witness ==
    \E c \in Calls :
        /\ FailedToolCall(c)
        /\ events[c][1].error = NetworkDown
        /\ response[c].code = "NETWORK_ERROR"
        /\ response[c].retryable

\* C10: after any records and resets the log is the last min(k, 1000) of the
\* k metrics recorded since the last reset, in order and unmodified; it never
\* holds more than 1000, and what is dropped is the oldest.
Min(a, b) == IF a < b THEN a ELSE b

C10_LogIsNewestWindow ==
    LET k == Len(recorded)
        kept == Min(k, 1000)
    IN /\ Len(metrics) = kept
       /\ Len(metrics) <= 1000
       /\ \A j \in 1..kept : metrics[j] = recorded[k - kept + j].metric

\* C10 witness: 1002 metrics recorded, the log holds the last 1000 of them and
\* the two oldest are gone.
C10_Witness ==
    /\ Len(recorded) = 1002
    /\ Len(metrics) = 1000
    /\ metrics[1] = recorded[3].metric
    /\ metrics[1000] = recorded[1002].metric
    /\ metrics[1] # recorded[1].metric

\* ------------------------------------------------------------------- C11
QueryNames == {"", "listIssues", "createIssue", "deleteIssue", "executePipeline"}

EntriesOf(name) == {j \in 1..Len(metrics) : metrics[j].toolName = name}

FailedOf(name) == {j \in EntriesOf(name) : ~metrics[j].success}

SameQuotient(q, num, den) == q.num * den = num * q.den

RECURSIVE DurationOf(_, _, _)
DurationOf(name, lo, hi) ==
    IF lo > hi THEN 0
    ELSE IF lo = hi
    THEN (IF metrics[lo].toolName = name THEN metrics[lo].requestDuration ELSE 0)
    ELSE LET mid == (lo + hi) \div 2
         IN  DurationOf(name, lo, mid) + DurationOf(name, mid + 1, hi)

\* C11: for every log and every tool name given as the argument, the empty
\* string included, getMetricsForTool, getErrorRate and
\* getAverageRequestDuration are computed over exactly the entries whose
\* toolName is that name: the rate is failed / relevant, the average is the
\* sum of durations / relevant, and both are 0 when no entry is relevant.
C11_ReadsScopedToName ==
    \A name \in QueryNames :
        LET rel == EntriesOf(name)
            n   == Cardinality(rel)
        IN  /\ Len(getMetricsForTool(metrics, name)) = n
            /\ \A j \in 1..Len(getMetricsForTool(metrics, name)) :
                   getMetricsForTool(metrics, name)[j].toolName = name
            /\ IF n = 0
               THEN /\ getErrorRate(metrics, NamedTool(name)).num = 0
                    /\ getAverageRequestDuration(metrics, NamedTool(name)).num = 0
               ELSE /\ SameQuotient(getErrorRate(metrics, NamedTool(name)),
                                    Cardinality(FailedOf(name)), n)
                    /\ SameQuotient(getAverageRequestDuration(metrics, NamedTool(name)),
                                    DurationOf(name, 1, Len(metrics)), n)

\* ------------------------------------------------------------------- C12
\* C12: nothing the caller does to the array getMetrics() returned (adding,
\* removing or reordering its elements, or writing to an element) changes
\* the collector's log.
C12_SnapshotIsolated == [][CallerEdit => metrics' = metrics]_vars

\* ------------------------------------------------------------------- C13
CallFailed(c) ==
    \/ StepFailed(c)
    \/ request[c].isPipeline /\ request[c].pipeline \in InvalidPipelines

ErrorPayloadFields == {"code", "message", "details", "retryable", "suggestions"}

\* Thrown values the handler may have to report.
ReportableErrors ==
    ClientErrors \cup {WrapStepError(e) : e \in ClientErrors}
    \cup {InvalidPipelineError, TypeErrorOf("")}

\* C13: a top-level call ends in exactly one response, a success carrying the
\* result or an error carrying code, message, details, retryable and
\* suggestions; it is the error exactly when the dispatcher or the pipeline
\* engine failed; and any other error reported under the same code gets the
\* same suggestions.
C13_ResultOrStructuredError ==
    \A c \in Calls :
        /\ pc[c] # "responded" => response[c] = NoResponse
        /\ pc[c] = "responded" =>
             /\ response[c].kind \in {"result", "error"}
             /\ response[c].kind = "error" <=> CallFailed(c)
             /\ response[c].isError <=> response[c].kind = "error"
             /\ response[c].kind = "result" =>
                  response[c].items =
                      [j \in 1..Cardinality(OkBefore(c, Len(events[c]) + 1)) |->
                          events[c][CHOOSE k \in OkBefore(c, Len(events[c]) + 1) :
                              Cardinality(OkBefore(c, k)) = j - 1].result]
             /\ response[c].kind = "error" =>
                  /\ ErrorPayloadFields \subseteq DOMAIN response[c]
                  /\ response[c].details.message = response[c].message
                  /\ \A e \in ReportableErrors :
                        ErrorResponse(e).code = response[c].code =>
                            ErrorResponse(e).suggestions = response[c].suggestions

C13_Witness ==
    \E c \in Calls :
        /\ pc[c] = "responded"
        /\ response[c].kind = "error"
        /\ response[c].code = "TOOL_ERROR"
        /\ response[c].details = ThrownObject

\* ------------------------------------------------------------------- C14
OkEvents(c) == {k \in EventIdx(c) : events[c][k].status = "ok"}

\* The results of the steps that returned, in the order of the steps.
OkResults(c) ==
    [j \in 1..Cardinality(OkEvents(c)) |->
        events[c][CHOOSE k \in OkEvents(c) :
            Cardinality({h \in OkEvents(c) : h < k}) = j - 1].result]

\* C14: a run looks at its steps one by one in declaration order; a step is
\* looked at only after every earlier step has returned or been skipped, so
\* at most one dispatch of the run is outstanding, and it is the latest step
\* looked at; the results held and returned are the results of the dispatched
\* steps in declaration order.
C14_StepsInDeclarationOrder ==
    \A c \in Calls : IsRun(c) =>
        /\ Len(events[c]) <= Len(Steps(c))
        /\ \A k \in EventIdx(c) :
             /\ events[c][k].step = k
             /\ events[c][k].name = Steps(c)[k].toolName
             /\ k < Len(events[c]) =>
                  events[c][k].what = "skip" \/ events[c][k].status = "ok"
             /\ events[c][k].status = "pending" =>
                  /\ k = Len(events[c])
                  /\ pc[c] = "awaitClient"
                  /\ frame[c].name = Steps(c)[k].toolName
        /\ pc[c] = "awaitClient" =>
             /\ events[c] # <<>>
             /\ events[c][Len(events[c])].status = "pending"
        /\ run[c].results = OkResults(c)
        /\ (pc[c] = "responded" /\ response[c].kind = "result") =>
             response[c].items = OkResults(c)

C14_Witness ==
    \E c \in Calls :
        /\ IsRun(c)
        /\ pc[c] = "responded"
        /\ response[c].kind = "result"
        /\ Len(response[c].items) = 2
        /\ response[c].items[1] # response[c].items[2]
        /\ \A k \in EventIdx(c) : events[c][k].status = "ok"

\* ------------------------------------------------------------------- C15
StartOf(m) == m.timestamp - m.requestDuration

\* C15: with several top-level calls in flight at once, every invocation that
\* has completed has exactly one metric and an outstanding one has none, every
\* metric of a call in flight belongs to one of its completed invocations, and
\* the log lists the metrics in the order the invocations completed.
C15_LogInCompletionOrder ==
    /\ metrics = LogOfHistory
    /\ \A j, k \in 1..Len(metrics) :
         j < k => metrics[j].timestamp <= metrics[k].timestamp
    /\ \A c \in Calls : pc[c] # "idle" =>
         /\ \A k \in EventIdx(c) :
              LET e == events[c][k]
                  S == MetricsOf(callId[c], e.step)
              IN  /\ e.what # "dispatch" => S = {}
                  /\ e.status = "pending" => S = {}
                  /\ (e.what = "dispatch" /\ e.status # "pending") =>
                       /\ Cardinality(S) = 1
                       /\ \A r \in S :
                            /\ recorded[r].metric.toolName = e.name
                            /\ recorded[r].metric.success <=> e.status = "ok"
         /\ \A r \in 1..Len(recorded) : recorded[r].id = callId[c] =>
              \E k \in EventIdx(c) :
                  /\ events[c][k].step = recorded[r].step
                  /\ events[c][k].what = "dispatch"
                  /\ events[c][k].status # "pending"

\* Two invocations of different calls overlapped, and the one that started
\* later completed first and stands first in the log.
C15_Witness ==
    \E j, k \in 1..Len(metrics) :
        /\ j < k
        /\ metrics = LogOfHistory
        /\ recorded[j].id # recorded[k].id
        /\ StartOf(metrics[j]) > StartOf(metrics[k])
        /\ metrics[j].timestamp < metrics[k].timestamp

\* ------------------------------------------------------------------- C16
MetricsOfCall(id) == {r \in 1..Len(recorded) : recorded[r].id = id}

Dispatched(c) == {k \in EventIdx(c) : events[c][k].what = "dispatch"}

Settled(c) == {k \in Dispatched(c) : events[c][k].status # "pending"}

\* C16: the metrics a run has added to the log are as many as the steps it
\* has dispatched and seen complete, one per such step and none for a skipped
\* step or a step after the failure; a finished run has added as many as it
\* dispatched; a run of zero steps returns the empty sequence and adds none.
C16_OneMetricPerDispatchedStep ==
    /\ metrics = LogOfHistory
    /\ \A c \in Calls : IsRun(c) =>
         /\ Cardinality(MetricsOfCall(callId[c])) = Cardinality(Settled(c))
         /\ \A r \in MetricsOfCall(callId[c]) : recorded[r].step \in Settled(c)
         /\ \A k \in Settled(c) : Cardinality(MetricsOf(callId[c], k)) = 1
         /\ pc[c] = "responded" =>
              Cardinality(MetricsOfCall(callId[c])) = Cardinality(Dispatched(c))
         /\ Steps(c) = <<>> =>
              /\ pc[c] = "responded"
              /\ response[c] = SuccessResponse("array", <<>>)
              /\ MetricsOfCall(callId[c]) = {}

\* A finished run with a skipped step and a failed dispatch: one metric.
C16_Witness ==
    \E c \in Calls :
        /\ IsRun(c)
        /\ pc[c] = "responded"
        /\ SkippedOf(c) # {}
        /\ FailedEvents(c) # {}
        /\ Cardinality(MetricsOfCall(callId[c])) = 1
        /\ Len(metrics) = 1

\* ------------------------------------------------------------------- C17
Refused(name, params) ==
    name \notin RegisteredTools \/ ArgsRefused(name, params)

\* C17: a dispatch with an unregistered name or with params its tool's
\* validation refuses is never handed to the client (it is never outstanding,
\* never returned, never failed by the client); it has failed by the time the
\* dispatcher yields, with exactly one metric, whose success is false.
C17_RefusedNeverReachesClient ==
    \A c \in Calls :
        /\ pc[c] = "awaitClient" => ~Refused(frame[c].name, frame[c].params)
        /\ pc[c] # "idle" =>
             \A k \in EventIdx(c) :
                 LET e == events[c][k] IN
                 (e.what = "dispatch" /\ Refused(e.name, e.params)) =>
                     /\ e.status = "rejected"
                     /\ e.error.isError
                     /\ pc[c] = "responded"
                     /\ response[c].kind = "error"
                     /\ Cardinality(MetricsOf(callId[c], e.step)) = 1
                     /\ \A r \in MetricsOf(callId[c], e.step) :
                          /\ ~recorded[r].metric.success
                          /\ recorded[r].metric.toolName = e.name
                          /\ \E j \in 1..Len(metrics) : metrics[j] = recorded[r].metric

\* A run whose first step returned and whose second step's params are refused.
C17_Witness ==
    \E c \in Calls :
        /\ IsRun(c)
        /\ Len(events[c]) = 2
        /\ events[c][1].status = "ok"
        /\ events[c][2].what = "dispatch"
        /\ ArgsRefused(events[c][2].name, events[c][2].params)
        /\ events[c][2].status = "rejected"
        /\ Cardinality(MetricsOfCall(callId[c])) = 2

\* ------------------------------------------------------------------- C18
\* C18: the params a dispatched step hands to the dispatcher are its
\* transform applied to prevResult when it has a transform, and its own params
\* otherwise; prevResult is the result of the latest earlier step of the run
\* that returned, and null when there is none.
C18_ParamsFromTransformElseOwn ==
    \A c \in Calls : IsRun(c) =>
        /\ \A k \in EventIdx(c) :
             LET e    == events[c][k]
                 step == Steps(c)[k]
             IN  /\ e.prev = LastResult(c, k)
                 /\ e.what = "dispatch" =>
                      /\ e.params = IF step.transform # "absent"
                                    THEN TransformEval(step.transform, LastResult(c, k))
                                    ELSE step.params
                      /\ e.status = "pending" => frame[c].params = e.params
        /\ run[c].prevResult = LastResult(c, Len(events[c]) + 1)

\* A second step whose transform, applied to the first step's result, gives
\* params other than its own.
C18_Witness ==
    \E c \in Calls :
        /\ IsRun(c)
        /\ Len(events[c]) = 2
        /\ events[c][1].status = "ok"
        /\ events[c][2].what = "dispatch"
        /\ Steps(c)[2].transform # "absent"
        /\ events[c][2].prev = events[c][1].result
        /\ events[c][2].params # Steps(c)[2].params

\* ------------------------------------------------------------------- C20
\* What applying step's condition and then its transform to prev comes to:
\* "throws" when the one that is applied last fails.
FunctionsOutcome(step, prev) ==
    LET cond == IF step.condition = "absent" THEN "true"
                ELSE CondEval(step.condition, prev)
    IN  IF cond # "true" THEN cond
        ELSE IF step.transform # "absent" /\ TransformThrows(step.transform, prev)
        THEN "throws" ELSE "true"

\* C20: when a step's condition or transform fails on prevResult, the step is
\* not dispatched and gets no metric, it is the last step the run looks at,
\* and the run ends with an error that has retryable = false and the message
\* of the function's failure; and only such a failure ends a run this way.
C20_FunctionFailureAbortsRun ==
    \A c \in Calls : IsRun(c) =>
        \A k \in EventIdx(c) :
            LET e == events[c][k] IN
            /\ e.what = "throw" <=>
                 FunctionsOutcome(Steps(c)[k], LastResult(c, k)) = "throws"
            /\ e.what = "throw" =>
                 /\ e.status = "none"
                 /\ e.error.name = "TypeError"
                 /\ k = Len(events[c])
                 /\ pc[c] = "responded"
                 /\ MetricsOf(callId[c], k) = {}
                 /\ \A r \in MetricsOfCall(callId[c]) : recorded[r].step < k
                 /\ response[c].kind = "error"
                 /\ response[c].details.hasRetryable
                 /\ ~response[c].details.retryable
                 /\ response[c].details.message = e.error.message
                 /\ response[c].message = e.error.message

\* A condition reading prevResult.nodes fails on the first step, where
\* prevResult is null; the second step is never looked at.
C20_Witness ==
    \E c \in Calls :
        /\ IsRun(c)
        /\ pc[c] = "responded"
        /\ Len(Steps(c)) = 2
        /\ Len(events[c]) = 1
        /\ events[c][1].what = "throw"
        /\ events[c][1].prev = Null
        /\ Steps(c)[1].condition # "absent"
        /\ MetricsOfCall(callId[c]) = {}
        /\ response[c].kind = "error"

\* ------------------------------------------------------------------- C19
Done(c) == IsRun(c) /\ pc[c] = "responded" /\ response[c].kind = "result"

FailedRun(c) == IsRun(c) /\ StepFailed(c)

Running(c) == IsRun(c) /\ ~Done(c) /\ ~FailedRun(c)

\* C19: if every call handed to the client is settled in the end, a run that
\* has passed validation ends, either DONE with its results or FAILED with an
\* error and never both; once DONE or FAILED it dispatches nothing more and
\* adds no metric until its reply is taken.
C19_RunEndsOnce ==
    /\ \A c \in Calls : Running(c) ~> (Done(c) \/ FailedRun(c))
    /\ [](\A c \in Calls :
            /\ ~(Done(c) /\ FailedRun(c))
            /\ Running(c) => pc[c] = "awaitClient"
            /\ FailedRun(c) => pc[c] = "responded" /\ response[c].kind = "error")
    /\ [][\A c \in Calls : (Done(c) \/ FailedRun(c)) =>
            /\ metrics' = metrics
            /\ recorded' = recorded
            /\ frame'[c] = NoFrame
            /\ events'[c] = events[c] \/ pc'[c] = "idle"]_vars

\* A run that waited on the client twice and is DONE.
C19_Witness ==
    \E c \in Calls :
        /\ Done(c)
        /\ Cardinality(Dispatched(c)) = 2
        /\ Cardinality(MetricsOfCall(callId[c])) = 2

====
